---- MODULE Spec2Model ----
(***************************************************************************)
(* Model of the Monte Carlo BER estimator:                                 *)
(*   - the block chain (coder, modem, channel) of project/src/coder.cpp,   *)
(*     project/include/modem.hpp and project/src/channel.cpp,              *)
(*   - the per-frame body and the concurrent engine of                     *)
(*     project/src/simulation.cpp (simulate_framewise and its workers).    *)
(*                                                                         *)
(* Three families of specifications share the variables below:             *)
(*   SpecCoder : direct calls of ICoder::encode / ICoder::decode,          *)
(*   SpecChain : one frame body of a worker (simulation.cpp 142-200),      *)
(*   Spec      : one invocation of simulate_framewise with its workers,    *)
(*   SpecFair  : Spec with the scheduler's fairness,                       *)
(*   SpecDet   : the same invocation executed twice with the same seed.    *)
(*                                                                         *)
(* Real-valued samples are modelled by integers: the symbol alphabet       *)
(* {-3,-1,+1,+3} and the decision thresholds {-2,0,+2} are integers, and   *)
(* noise and fading samples are drawn from small integer sets.             *)
(***************************************************************************)
EXTENDS Integers, Sequences, FiniteSets, TLC

\* ---------------------------------------------------------------- bounds
\* Longest information word given to the coder and to the frame body.
MaxInfoLen == 3
\* Most bit flips injected between encode and decode in SpecCoder.
MaxFlips == 1
\* In SpecChain only the first MaxNoisySyms symbols of a frame may receive a
\* non-zero noise sample or a zero fading gain.
MaxNoisySyms == 1
\* Largest magnitude of a noise sample in SpecChain.
MaxNoise == 2
\* Longest arbitrary word handed to the decoder in SpecCoder.
MaxRawLen == 8
\* Largest worker count, frame length, max_bits and min_errors of the
\* configurations the engine is run with.
MaxThreads == 2
MaxFrameLen == 1
MaxMaxBits == 2
MaxMinErrors == 1

\* ------------------------------------------------------- bit arithmetic
\* a ^ b on non-negative integers.
RECURSIVE XorBits(_, _)
XorBits(a, b) ==
    IF a = 0 /\ b = 0 THEN 0
    ELSE (((a % 2) + (b % 2)) % 2) + 2 * XorBits(a \div 2, b \div 2)

\* a & b on non-negative integers.
RECURSIVE AndBits(_, _)
AndBits(a, b) ==
    IF a = 0 \/ b = 0 THEN 0
    ELSE ((a % 2) * (b % 2)) + 2 * AndBits(a \div 2, b \div 2)

\* coder.cpp:21, the parity of a nibble (index 0 is p4[1] here).
p4 == <<0, 1, 1, 0, 1, 0, 0, 1, 1, 0, 0, 1, 0, 1, 1, 0>>

\* coder.cpp:15-23.
parity32(x) ==
    LET x1 == XorBits(x, x \div 65536)
        x2 == XorBits(x1, x1 \div 256)
        x3 == XorBits(x2, x2 \div 16)
        x4 == AndBits(x3, 15)
    IN  p4[x4 + 1]

\* coder.cpp:26-28: generators 133 and 171 (octal), memory 6.
G0 == 91
G1 == 121
M == 6
\* coder.cpp:59-60.
NSTATE == 2 ^ M
INF == 1000000000

States == 0..(NSTATE - 1)

Max(a, b) == IF a >= b THEN a ELSE b
Min(a, b) == IF a <= b THEN a ELSE b

BitStrings(lo, hi) == UNION {[1..k -> {0, 1}] : k \in lo..hi}

\* ------------------------------------------------------------ the coders
\* coder.cpp:35-42, the lambda push: the new register and the two bits
\* appended to c.
push(sr, bit) ==
    LET sr2 == AndBits(sr * 2 + AndBits(bit, 1), 2 ^ (M + 1) - 1)
    IN  [sr |-> sr2,
         out |-> <<parity32(AndBits(sr2, G0)), parity32(AndBits(sr2, G1))>>]

\* coder.cpp:43-46: the two loops, over u and then over M zero bits.
RECURSIVE EncodeFrom(_, _, _, _)
EncodeFrom(uu, k, sr, acc) ==
    IF k > Len(uu) + M THEN acc
    ELSE LET p == push(sr, IF k <= Len(uu) THEN uu[k] ELSE 0)
         IN  EncodeFrom(uu, k + 1, p.sr, acc \o p.out)

\* What the call leaves in c before the first push (c.clear(), line 32).
ConvEncodeStartDropped(cprev) == cprev
ConvEncodeStart(cprev) == <<>>

\* coder.cpp:30-47, ConvK7R12::encode(u, c): the new content of c.
ConvEncode(uu, cprev) == EncodeFrom(uu, 1, 0, ConvEncodeStart(cprev))

\* coder.cpp:68-82, one entry of T0 (b = 0) or T1 (b = 1).
TransNoInput(s, b) ==
    LET sr == AndBits(s * 2, 2 ^ (M + 1) - 1)
    IN  [next |-> AndBits(sr, 2 ^ M - 1),
         out  |-> parity32(AndBits(sr, G0)) * 2 + parity32(AndBits(sr, G1))]
Trans(s, b) ==
    LET sr == AndBits(s * 2 + b, 2 ^ (M + 1) - 1)
    IN  [next |-> AndBits(sr, 2 ^ M - 1),
         out  |-> parity32(AndBits(sr, G0)) * 2 + parity32(AndBits(sr, G1))]

T0 == [s \in States |-> Trans(s, 0)]
T1 == [s \in States |-> Trans(s, 1)]

\* coder.cpp:101 and 113, the Hamming distance of two 2-bit symbols.
DistLowBit(ref, r) == XorBits(AndBits(ref, 1), AndBits(r, 1))
Dist(ref, r) ==
    XorBits(AndBits(ref \div 2, 1), AndBits(r \div 2, 1))
    + XorBits(AndBits(ref, 1), AndBits(r, 1))

\* The relaxations of coder.cpp:93-122 that write entry ns of pm_curr, pred
\* and dec, in the order the loops perform them (s ascending, b = 0 before
\* b = 1).  A relaxation reads and writes only the entry of its own
\* destination, so the loop nest is the same as doing, for every ns, the
\* relaxations of Cands[ns] in this order.
Cands ==
    [ns \in States |->
        LET RECURSIVE InOrder(_)
            InOrder(s) ==
                IF s >= NSTATE THEN <<>>
                ELSE (IF T0[s].next = ns
                      THEN <<[s |-> s, b |-> 0, out |-> T0[s].out]>> ELSE <<>>)
                     \o (IF T1[s].next = ns
                         THEN <<[s |-> s, b |-> 1, out |-> T1[s].out]>> ELSE <<>>)
                     \o InOrder(s + 1)
        IN  InOrder(0)]

\* coder.cpp:103 and 115: the relaxation test.
BetterLax(m, best) == m <= best
Better(m, best) == m < best

\* coder.cpp:95-121 for one destination: skip origins with pm >= INF, keep
\* the first strictly smaller metric.
RECURSIVE Relax(_, _, _, _, _)
Relax(cands, k, pm_prev, r, cur) ==
    IF k > Len(cands) THEN cur
    ELSE LET cd == cands[k]
             pm == pm_prev[cd.s]
             m  == pm + Dist(cd.out, r)
         IN  IF pm >= INF \/ ~Better(m, cur.pm)
             THEN Relax(cands, k + 1, pm_prev, r, cur)
             ELSE Relax(cands, k + 1, pm_prev, r,
                        [pm |-> m, pred |-> cd.s, dec |-> cd.b])

\* coder.cpp:92-122: one trellis step, the rows of pm_curr, pred and dec.
ForwardStates(pm_prev, r) ==
    LET cell == [ns \in States |->
                    Relax(Cands[ns], 1, pm_prev, r,
                          [pm |-> INF, pred |-> -1, dec |-> 0])]
    IN  [pm   |-> [ns \in States |-> cell[ns].pm],
         pred |-> [ns \in States |-> cell[ns].pred],
         dec  |-> [ns \in States |-> cell[ns].dec]]

\* coder.cpp:89-124: the forward pass; rows[t + 1] holds time t.
RECURSIVE Forward(_, _, _, _, _)
Forward(ch, n_sym, t, pm_prev, rows) ==
    IF t >= n_sym THEN rows
    ELSE LET r   == ch[2 * t + 1] * 2 + ch[2 * t + 2]
             row == ForwardStates(pm_prev, r)
         IN  Forward(ch, n_sym, t + 1, row.pm, Append(rows, row))

\* coder.cpp:131, the number of information bits.
InfoLenOffByOne(n_sym) == IF n_sym > M + 1 THEN n_sym - M ELSE 0
InfoLen(n_sym) == IF n_sym > M THEN n_sym - M ELSE 0

\* coder.cpp:133-140: the traceback.  tr.path lists the states visited
\* (from the last symbol down to time 0), tr.fallbacks counts the uses of
\* the p < 0 fallback, tr.inb says that every table index was in bounds,
\* tr.last is the state left in `state` after the loop.
RECURSIVE Traceback(_, _, _, _)
Traceback(rows, t, K, tr) ==
    IF t = 0 THEN tr
    ELSE IF tr.last \notin States THEN [tr EXCEPT !.inb = FALSE]
    ELSE LET b == rows[t].dec[tr.last]
             p == rows[t].pred[tr.last]
         IN  Traceback(rows, t - 1, K,
                 [u_hat     |-> IF t - 1 < K THEN [tr.u_hat EXCEPT ![t] = b]
                                ELSE tr.u_hat,
                  path      |-> Append(tr.path, tr.last),
                  fallbacks |-> tr.fallbacks + (IF p >= 0 THEN 0 ELSE 1),
                  inb       |-> tr.inb,
                  last      |-> IF p >= 0 THEN p ELSE 0])

\* coder.cpp:84-87: the path metrics before the first symbol, 0 for state 0
\* and INF for every other state.
InitialMetricsAllZero == [s \in States |-> 0]
InitialMetrics == [s \in States |-> IF s = 0 THEN 0 ELSE INF]

\* coder.cpp:50-144, ConvK7R12::decode(c_hat, u_hat): the new content of
\* u_hat with the trace of the traceback.
ConvDecode(ch, uprev) ==
    LET n_sym == Len(ch) \div 2
    IN  IF n_sym = 0
        THEN [u_hat |-> <<>>, path |-> <<>>, fallbacks |-> 0, inb |-> TRUE,
              last |-> 0]
        ELSE LET rows == Forward(ch, n_sym, 0, InitialMetrics, <<>>)
                 K    == InfoLen(n_sym)
             IN  Traceback(rows, n_sym, K,
                           [u_hat |-> [j \in 1..K |-> 0], path |-> <<>>,
                            fallbacks |-> 0, inb |-> TRUE, last |-> 0])

\* The coders of the build (archive/include/coder.hpp:23-36).
Coders == {"uncoded", "conv_k7_r12"}

\* ICoder::encode: Uncoded (coder.hpp:25) copies u, ConvK7R12 encodes.
CoderEncode(cd, uu, cprev) ==
    IF cd = "uncoded" THEN uu ELSE ConvEncode(uu, cprev)

\* ICoder::decode: Uncoded (coder.hpp:26) copies c_hat.
CoderDecode(cd, ch, uprev) ==
    IF cd = "uncoded"
    THEN [u_hat |-> ch, path |-> <<>>, fallbacks |-> 0, inb |-> TRUE, last |-> 0]
    ELSE ConvDecode(ch, uprev)

\* ICoder::supports_soft (coder.hpp:19): no coder overrides the default.
SupportsSoft(cd) == FALSE

\* ------------------------------------------------------------ the modems
\* The modems of the build (modem.hpp:19 and 29, Mapping at 31-35).
Modems == {"ask2", "ask4_gray", "ask4_natural"}

\* modem.hpp:24 and 158, bits_per_symbol().
BitsPerSymbol(md) == IF md = "ask2" THEN 1 ELSE 2

\* The 8-slot scratch arrays inbits and outbits (simulation.cpp:157, 181);
\* slot k of the code is slot k + 1 here.
Zeros8 == [k \in 1..8 |-> 0]

\* modem.hpp:21, Ask2Modem::modulate.
Ask2Modulate(bits) == IF bits[1] # 0 THEN -1 ELSE 1

\* modem.hpp:22, Ask2Modem::demodulate.
Ask2Demodulate(r, out) == [out EXCEPT ![1] = IF r < 0 THEN 1 ELSE 0]

\* modem.hpp:39-75, Ask4Modem::modulate; val is (b0 << 1) | b1.
Ask4Modulate(md, bits) ==
    LET val == 2 * bits[1] + bits[2]
    IN  IF md = "ask4_gray"
        THEN CASE val = 0 -> -3
               [] val = 1 -> -1
               [] val = 3 -> 1
               [] val = 2 -> 3
               [] OTHER -> 0
        ELSE CASE val = 0 -> -3
               [] val = 1 -> -1
               [] val = 2 -> 1
               [] val = 3 -> 3
               [] OTHER -> 0

\* modem.hpp:79-81, the symbol index from the thresholds -2, 0, +2.
Ask4Slice(r) == IF r < -2 THEN 0 ELSE IF r < 0 THEN 1 ELSE IF r < 2 THEN 2 ELSE 3

\* modem.hpp:108-127, the Natural table of Ask4Modem::demodulate.
NaturalBits(sym) ==
    CASE sym = 0 -> <<0, 0>>
      [] sym = 1 -> <<0, 1>>
      [] sym = 2 -> <<1, 0>>
      [] sym = 3 -> <<1, 1>>

\* modem.hpp:85-104, the Gray table of Ask4Modem::demodulate.
GrayBitsUnfixed(sym) == NaturalBits(sym)
GrayBits(sym) ==
    CASE sym = 0 -> <<0, 0>>
      [] sym = 1 -> <<0, 1>>
      [] sym = 2 -> <<1, 1>>
      [] sym = 3 -> <<1, 0>>

\* modem.hpp:76-129, Ask4Modem::demodulate.
Ask4Demodulate(md, r, out) ==
    LET sym == Ask4Slice(r)
        bb  == IF md = "ask4_gray" THEN GrayBits(sym) ELSE NaturalBits(sym)
    IN  [out EXCEPT ![1] = bb[1], ![2] = bb[2]]

\* IModem::modulate and IModem::demodulate (modem.hpp:11-12).
Modulate(md, bits) ==
    IF md = "ask2" THEN Ask2Modulate(bits) ELSE Ask4Modulate(md, bits)

Demodulate(md, r, out) ==
    IF md = "ask2" THEN Ask2Demodulate(r, out) ELSE Ask4Demodulate(md, r, out)

\* ---------------------------------------------------------- the channels
Channels == {"awgn", "rayleigh"}

\* channel.cpp:9-13, AwgnChannel::transmit; n is the sample of N(0, sigma).
AwgnTransmit(s, n) == [y |-> s + n, gain |-> 1]

\* channel.cpp:16-22, RayleighChannel::transmit; h is |g|, g of N(0, 1).
RayleighTransmit(s, h) == [y |-> h * s, gain |-> h]

\* simulation.cpp:167-168, the equalized observation.  In every state of
\* the model y is a multiple of gain, so the quotient is exact.
Equalize(ch) == IF ch.gain > 0 THEN ch.y \div ch.gain ELSE ch.y

\* The samples a normal distribution of deviation sg can return: 0 alone
\* when sg = 0, any value when sg > 0.
NoiseSamples(sg) == IF sg = 0 THEN {0} ELSE (-MaxNoise)..MaxNoise

\* The fading gains |g| can take (0 has probability 0 but is a value).
GainSamples == {0, 1, 2}

\* simulation.cpp:197-200: the number of compared positions with u[j] #
\* u_hat[j].
CountErrors(uu, uh, L) == Cardinality({j \in 1..L : uu[j] # uh[j]})

\* ------------------------------------------------------------- the state
VARIABLES
    \* the block chain: one frame of a worker, or one coder call
    coder,      \* the ICoder in use
    modem,      \* the IModem in use
    channel,    \* the IChannel in use
    sigma,      \* 0: the noise deviation is zero, 1: it is positive
    u,          \* information bits
    c,          \* coded bits
    c_hat,      \* hard-decided coded bits
    u_hat,      \* decoded bits
    i,          \* simulation.cpp:154, index of the next symbol group in c
    noisy,      \* bits flipped so far on the way to the decoder
    frame_len_bits, \* the frame length handed to the frame body
    symrec,     \* the locals of the last symbol-loop iteration
    dtrace,     \* the trace of the last decode
    cnt,        \* simulation.cpp:197-200, L and local_err of the frame
    stage       \* position in the frame body

chainVars == <<coder, modem, channel, sigma, u, c, c_hat, u_hat, i, noisy,
               frame_len_bits, symrec, dtrace, cnt, stage>>

VARIABLES
    \* one invocation of simulate_framewise
    cfg,        \* the arguments of the call
    n_threads,  \* the worker count after simulation.cpp:89-93
    total_bits, \* simulation.cpp:95
    total_err,  \* simulation.cpp:95
    stop,       \* simulation.cpp:96
    pc,         \* position of each worker
    wl,         \* locals of each worker: L, local_err, bits_after, errs_after
    mpc,        \* position of the calling thread
    nspawn,     \* simulation.cpp:219, workers created so far
    njoin,      \* simulation.cpp:221, workers joined so far
    result,     \* the BerResult being returned
    \* history, read by no action of the engine
    sum_bits,   \* compared bits of all frames completed so far
    sum_errs,   \* bit errors of all frames completed so far
    stop0,      \* the totals at the moment stop was first set
    after_stop, \* per worker, total_bits publications made after that
    \* the random streams of the workers and the repeated execution
    stream,     \* per worker, the outcomes of its frames in draw order
    drawn,      \* per worker, the frames drawn in the current execution
    replay,     \* "off", "record" (first execution) or "replay" (second)
    first_result \* the BerResult of the first execution

engineVars == <<cfg, n_threads, total_bits, total_err, stop, pc, wl, mpc,
                nspawn, njoin, result>>

ghostVars == <<sum_bits, sum_errs, stop0, after_stop>>

detVars == <<stream, drawn, replay, first_result>>

VARIABLES
    \* the driver (main) and its environment
    env,        \* the configuration file and the file system, as main finds them
    dpc,        \* position of the driver thread
    exit_code,  \* the value main returns, -1 while it runs
    pt,         \* main.cpp:181, the loop index i
    npoints,    \* main.cpp:179, n
    sink,       \* the output file: opened, header written, and the SNR
                \* point of each record (its values are those of result)
    caller_rng, \* draws taken from main's rng so far
    calls       \* invocations of simulate_framewise so far

sweepVars == <<env, dpc, exit_code, pt, npoints, sink, caller_rng, calls>>

VARIABLES
    \* the seeds of one invocation (simulation.cpp:124-128)
    base,       \* the value drawn from the caller's generator
    seeds       \* the seeds derived so far, seeds[t + 1] for worker t

seedVars == <<base, seeds>>

vars == <<chainVars, engineVars, ghostVars, detVars, sweepVars, seedVars>>

NoSym == [valid |-> FALSE, inbits |-> Zeros8, s |-> 0, y |-> 0, gain |-> 0,
          r_eq |-> 0, outbits |-> Zeros8]

NoTrace == [path |-> <<>>, fallbacks |-> 0, inb |-> TRUE, last |-> 0]

NoCount == [L |-> 0, local_err |-> 0]

\* Content left in an output vector by an earlier call.
Stale == <<1, 0, 1>>

\* A rational number n / d with d > 0.
Rat(n, d) == [n |-> n, d |-> d]
Zero == Rat(0, 1)

NoCI == [computed |-> FALSE, e |-> 0, n |-> 0]
NoResult == [ber |-> Zero, bits |-> 0, errs |-> 0, ci |-> NoCI]
NoStop == [set |-> FALSE, bits |-> 0, errs |-> 0]
NoLocals == [L |-> 0, local_err |-> 0, bits_after |-> 0, errs_after |-> 0]

\* No engine is running (SpecCoder, SpecChain).
EngineIdle ==
    /\ cfg = [min_errors |-> 0, max_bits |-> 0, frame_len |-> 1,
              threads |-> 1, ci_abs |-> Zero, ci_rel |-> Zero,
              ci_min_bits |-> 0, ber_floor |-> Zero, z2 |-> 0]
    /\ n_threads = 0
    /\ total_bits = 0
    /\ total_err = 0
    /\ stop = FALSE
    /\ pc = <<>>
    /\ wl = <<>>
    /\ mpc = "idle"
    /\ nspawn = 0
    /\ njoin = 0
    /\ result = NoResult
    /\ sum_bits = 0
    /\ sum_errs = 0
    /\ stop0 = NoStop
    /\ after_stop = <<>>
    /\ stream = <<>>
    /\ drawn = <<>>
    /\ replay = "off"
    /\ first_result = NoResult

\* No driver is observed (every specification but SpecSweep).
NoEnv == [config_ok |-> TRUE, selectors_ok |-> TRUE, dir_ok |-> TRUE,
          open_ok |-> TRUE, snr_start |-> 0, snr_stop |-> 0, snr_step |-> 1,
          hw |-> 0]

\* The output file before it is opened.
NoSink == [open |-> FALSE, header |-> FALSE, records |-> <<>>]

SweepIdle ==
    /\ env = NoEnv
    /\ dpc = "idle"
    /\ exit_code = -1
    /\ pt = 0
    /\ npoints = 0
    /\ sink = NoSink
    /\ caller_rng = 0
    /\ calls = 0

\* No seed derivation is observed (every specification but SpecSeeds).
SeedIdle ==
    /\ base = 0
    /\ seeds = <<>>

\* No frame body is being traced (Spec, SpecFair, SpecDet).
ChainIdle ==
    /\ coder = "uncoded"
    /\ modem = "ask2"
    /\ channel = "awgn"
    /\ sigma = 1
    /\ u = <<>>
    /\ c = <<>>
    /\ c_hat = <<>>
    /\ u_hat = <<>>
    /\ i = 0
    /\ noisy = 0
    /\ frame_len_bits = 0
    /\ symrec = NoSym
    /\ dtrace = NoTrace
    /\ cnt = NoCount
    /\ stage = "idle"

\* --------------------------------------------- SpecCoder: the coder alone
InitCoder ==
    /\ coder \in Coders
    /\ modem = "ask2"
    /\ channel = "awgn"
    /\ sigma = 0
    /\ u \in BitStrings(0, MaxInfoLen)
    /\ c \in {<<>>, Stale}
    /\ c_hat = <<>>
    /\ u_hat = Stale
    /\ i = 0
    /\ noisy = 0
    /\ frame_len_bits = Len(u)
    /\ symrec = NoSym
    /\ dtrace = NoTrace
    /\ cnt = NoCount
    /\ stage = "start"
    /\ EngineIdle
    /\ SweepIdle
    /\ SeedIdle

\* coder.encode(u, c); the receiver is then handed c unchanged.
CallEncode ==
    /\ stage = "start"
    /\ c' = CoderEncode(coder, u, c)
    /\ c_hat' = c'
    /\ stage' = "coded"
    /\ UNCHANGED <<seedVars, sweepVars, engineVars, ghostVars, detVars, frame_len_bits, coder, modem, channel, sigma, u, u_hat, i, noisy, symrec,
                   dtrace, cnt>>

\* The decoder is handed an arbitrary short word instead of a codeword.
HandRaw ==
    /\ stage = "start"
    /\ u = <<>>
    /\ c = <<>>
    /\ c_hat' \in BitStrings(0, MaxRawLen)
    /\ stage' = "raw"
    /\ UNCHANGED <<seedVars, sweepVars, engineVars, ghostVars, detVars, frame_len_bits, coder, modem, channel, sigma, u, c, u_hat, i, noisy, symrec,
                   dtrace, cnt>>

\* A bit error on the way to the decoder.
FlipBit ==
    /\ stage = "coded"
    /\ Len(c_hat) = Len(c)
    /\ noisy < MaxFlips
    /\ \E k \in 1..Len(c_hat) : c_hat' = [c_hat EXCEPT ![k] = 1 - c_hat[k]]
    /\ noisy' = noisy + 1
    /\ UNCHANGED <<seedVars, sweepVars, engineVars, ghostVars, detVars, frame_len_bits, coder, modem, channel, sigma, u, c, u_hat, i, symrec,
                   dtrace, cnt, stage>>

\* The decoder is handed a shorter sequence (any length, odd ones too).
DropLast ==
    /\ stage = "coded"
    /\ noisy = 0
    /\ Len(c_hat) > 0
    /\ c_hat' = SubSeq(c_hat, 1, Len(c_hat) - 1)
    /\ UNCHANGED <<seedVars, sweepVars, engineVars, ghostVars, detVars, frame_len_bits, coder, modem, channel, sigma, u, c, u_hat, i, noisy,
                   symrec, dtrace, cnt, stage>>

\* coder.decode(c_hat, u_hat).
CallDecode ==
    /\ stage \in {"coded", "raw"}
    /\ \E d \in {CoderDecode(coder, c_hat, u_hat)} :
           /\ u_hat' = d.u_hat
           /\ dtrace' = [path |-> d.path, fallbacks |-> d.fallbacks,
                         inb |-> d.inb, last |-> d.last]
    /\ stage' = IF stage = "coded" THEN "decoded" ELSE "raw_decoded"
    /\ UNCHANGED <<seedVars, sweepVars, engineVars, ghostVars, detVars, frame_len_bits, coder, modem, channel, sigma, u, c, c_hat, i, noisy,
                   symrec, cnt>>

NextCoder == CallEncode \/ HandRaw \/ FlipBit \/ DropLast \/ CallDecode

SpecCoder == InitCoder /\ [][NextCoder]_vars

\* ------------------------------- SpecChain: the frame body of a worker
\* simulation.cpp:135-138: the scratch vectors of a worker start empty.
InitChain ==
    /\ coder \in Coders
    /\ modem \in Modems
    /\ channel \in Channels
    /\ sigma \in {0, 1}
    /\ frame_len_bits \in 1..MaxInfoLen
    /\ u = <<>>
    /\ c = <<>>
    /\ c_hat = <<>>
    /\ u_hat = <<>>
    /\ i = 0
    /\ noisy = 0
    /\ symrec = NoSym
    /\ dtrace = NoTrace
    /\ cnt = NoCount
    /\ stage = "gen"
    /\ EngineIdle
    /\ SweepIdle
    /\ SeedIdle

\* simulation.cpp:142-145: frame_len_bits fair bits.
GenBits ==
    /\ stage = "gen"
    /\ u' \in [1..frame_len_bits -> {0, 1}]
    /\ stage' = "encode"
    /\ UNCHANGED <<seedVars, sweepVars, engineVars, ghostVars, detVars, frame_len_bits, coder, modem, channel, sigma, c, c_hat,
                   u_hat, i, noisy, symrec, dtrace, cnt>>

\* simulation.cpp:147-154: encode, clear c_hat, i = 0.
Encode ==
    /\ stage = "encode"
    /\ c' = CoderEncode(coder, u, c)
    /\ c_hat' = <<>>
    /\ i' = 0
    /\ stage' = "symbols"
    /\ UNCHANGED <<seedVars, sweepVars, engineVars, ghostVars, detVars, frame_len_bits, coder, modem, channel, sigma, u, u_hat,
                   noisy, symrec, dtrace, cnt>>

\* simulation.cpp:157-160: the zero-padded group of mbs coded bits at i.
GroupBits(cc, ii, mbs) ==
    [k \in 1..8 |-> IF k <= mbs /\ ii + k <= Len(cc) THEN cc[ii + k] ELSE 0]

\* simulation.cpp:183-185: the demodulated bits kept, fewer for a ragged
\* last group.
KeptAll(cc, ii, mbs, out) == SubSeq(out, 1, mbs)
Kept(cc, ii, mbs, out) == SubSeq(out, 1, Min(mbs, Len(cc) - ii))

\* channel.transmit(s, trng, sigma) with the values its draws can take; a
\* disturbed symbol is allowed among the first MaxNoisySyms only.
ChannelOutputs(chn, s, sg, quiet) ==
    IF chn = "awgn"
    THEN {AwgnTransmit(s, n) : n \in IF quiet THEN NoiseSamples(0)
                                     ELSE NoiseSamples(sg)}
    ELSE {RayleighTransmit(s, h) : h \in IF quiet THEN GainSamples \ {0}
                                         ELSE GainSamples}

\* simulation.cpp:155-188: one iteration of the symbol loop (hard branch;
\* no coder supports soft decoding).
SymbolStep ==
    /\ stage = "symbols"
    /\ i < Len(c)
    /\ ~SupportsSoft(coder)
    /\ LET mbs    == BitsPerSymbol(modem)
           inbits == GroupBits(c, i, mbs)
           s      == Modulate(modem, inbits)
       IN  \E ch \in ChannelOutputs(channel, s, sigma,
                                    (i \div mbs) >= MaxNoisySyms) :
               LET r_eq    == Equalize(ch)
                   outbits == Demodulate(modem, r_eq, Zeros8)
               IN  /\ c_hat' = c_hat \o Kept(c, i, mbs, outbits)
                   /\ i' = i + mbs
                   /\ symrec' = [valid |-> TRUE, inbits |-> inbits, s |-> s,
                                 y |-> ch.y, gain |-> ch.gain, r_eq |-> r_eq,
                                 outbits |-> outbits]
    /\ UNCHANGED <<seedVars, sweepVars, engineVars, ghostVars, detVars, frame_len_bits, coder, modem, channel, sigma, u, c, u_hat,
                   noisy, dtrace, cnt, stage>>

\* simulation.cpp:155: the loop ends; the locals of its body are gone.
SymbolsDone ==
    /\ stage = "symbols"
    /\ i >= Len(c)
    /\ symrec' = NoSym
    /\ stage' = "decode"
    /\ UNCHANGED <<seedVars, sweepVars, engineVars, ghostVars, detVars, frame_len_bits, coder, modem, channel, sigma, u, c, c_hat,
                   u_hat, i, noisy, dtrace, cnt>>

\* simulation.cpp:190-194: decode (hard).
Decode ==
    /\ stage = "decode"
    /\ ~SupportsSoft(coder)
    /\ \E d \in {CoderDecode(coder, c_hat, u_hat)} :
           /\ u_hat' = d.u_hat
           /\ dtrace' = [path |-> d.path, fallbacks |-> d.fallbacks,
                         inb |-> d.inb, last |-> d.last]
    /\ stage' = "count"
    /\ UNCHANGED <<seedVars, sweepVars, engineVars, ghostVars, detVars, frame_len_bits, coder, modem, channel, sigma, u, c, c_hat,
                   i, noisy, symrec, cnt>>

\* simulation.cpp:196-200: L and local_err.
FrameCount(uu, uh) ==
    LET L == Min(Len(uu), Len(uh))
    IN  [L |-> L, local_err |-> CountErrors(uu, uh, L)]

CountFrame ==
    /\ stage = "count"
    /\ cnt' = FrameCount(u, u_hat)
    /\ stage' = "done"
    /\ UNCHANGED <<seedVars, sweepVars, engineVars, ghostVars, detVars, frame_len_bits, coder, modem, channel, sigma, u, c, c_hat,
                   u_hat, i, noisy, symrec, dtrace>>

NextChain ==
    GenBits \/ Encode \/ SymbolStep \/ SymbolsDone \/ Decode \/ CountFrame

SpecChain == InitChain /\ [][NextChain]_vars

\* --------------------------------------------------- the stop predicates
\* simulation.cpp:109, the 1e-12 floor of p, as 1 / (PFloorRoot * PFloorRoot).
PFloorRoot == 1000000

\* The square of the half-width `rad` of simulation.cpp:60 for errs = e,
\* bits = n > 0 and z * z = z2, as the fraction num / den:
\*   rad^2 = z2 * (4 e (n - e) + z2 n) / (4 n (n + z2)^2).
HalfSq(e, n, z2) ==
    [num |-> z2 * (4 * e * (n - e) + z2 * n),
     den |-> 4 * n * (n + z2) * (n + z2)]

\* simulation.cpp:60: the argument of std::sqrt is negative, and rad is NaN,
\* when errs exceeds bits by enough; every comparison with NaN is false.
RadIsNaN(e, n, z2) == HalfSq(e, n, z2).num < 0

\* half <= a for a rational a >= 0, by comparing the squares.
HalfLeq(e, n, z2, a) ==
    LET h == HalfSq(e, n, z2)
    IN  ~RadIsNaN(e, n, z2) /\ h.num * a.d * a.d <= a.n * a.n * h.den

\* half <= a * 1e-12: X * K^4 <= Y is X <= (((Y / K) / K) / K) / K for
\* integers, with K = PFloorRoot.
HalfLeqTiny(e, n, z2, a) ==
    LET h == HalfSq(e, n, z2)
        X == h.num * a.d * a.d
        Y == a.n * a.n * h.den
    IN  /\ ~RadIsNaN(e, n, z2)
        /\ X <= (((Y \div PFloorRoot) \div PFloorRoot) \div PFloorRoot)
                 \div PFloorRoot

\* p = e / n is at least 1e-12.
PAboveFloor(e, n) ==
    e >= (((n + PFloorRoot - 1) \div PFloorRoot) + PFloorRoot - 1)
         \div PFloorRoot

\* simulation.cpp:61, hi = min(1, center + rad) <= f for a rational f, with
\* center = (2 e + z2) / (2 (n + z2)):  f >= 1, or X >= 0 and
\* rad^2 <= (f - center)^2, i.e. num * f.d^2 <= X^2 * n, where
\* X = 2 f.n (n + z2) - f.d (2 e + z2).  With rad NaN, std::min(1.0, NaN)
\* is 1.0.
HiLeq(e, n, z2, f) ==
    LET h == HalfSq(e, n, z2)
        X == 2 * f.n * (n + z2) - f.d * (2 * e + z2)
    IN  \/ f.n >= f.d
        \/ (~RadIsNaN(e, n, z2) /\ X >= 0 /\ h.num * f.d * f.d <= X * X * n)

\* simulation.cpp:102 and 116, the ci_min_bits guard.
EnoughBitsNoGuard(k, bits) == bits # 0
EnoughBits(k, bits) == ~(bits = 0 \/ bits < k.ci_min_bits)

\* simulation.cpp:98-111, ci_goals_met.
ci_goals_met(k, bits, errs) ==
    IF k.ci_abs.n <= 0 /\ k.ci_rel.n <= 0 THEN TRUE
    ELSE IF ~EnoughBits(k, bits) THEN FALSE
    ELSE LET ok_abs == (k.ci_abs.n <= 0) \/ HalfLeq(errs, bits, k.z2, k.ci_abs)
             ok_rel == \/ k.ci_rel.n <= 0
                       \/ IF PAboveFloor(errs, bits)
                          THEN HalfLeq(errs, bits, k.z2,
                                       Rat(k.ci_rel.n * errs, k.ci_rel.d * bits))
                          ELSE HalfLeqTiny(errs, bits, k.z2, k.ci_rel)
         IN  ok_abs /\ ok_rel

\* simulation.cpp:112-122, floor_met.
floor_met(k, bits, errs) ==
    IF k.ber_floor.n <= 0 THEN FALSE
    ELSE IF ~EnoughBits(k, bits) THEN FALSE
    ELSE HiLeq(errs, bits, k.z2, k.ber_floor)

\* simulation.cpp:206.
StopByMaxNever(k, bits_after) == FALSE
StopByMax(k, bits_after) == k.max_bits > 0 /\ bits_after >= k.max_bits

\* simulation.cpp:207 and 208.
StopByFloor(k, bits_after, errs_after) == floor_met(k, bits_after, errs_after)
StopByCiNoMinErrors(k, bits_after, errs_after) ==
    ci_goals_met(k, bits_after, errs_after)
StopByCi(k, bits_after, errs_after) ==
    /\ (k.min_errors = 0 \/ errs_after >= k.min_errors)
    /\ ci_goals_met(k, bits_after, errs_after)

\* simulation.cpp:206-209, the condition of the break.
ShouldStop(k, bits_after, errs_after) ==
    LET stop_by_max   == StopByMax(k, bits_after)
        stop_by_floor == StopByFloor(k, bits_after, errs_after)
        stop_by_ci    == StopByCi(k, bits_after, errs_after)
    IN  stop_by_max \/ stop_by_floor \/ stop_by_ci

\* ------------------------------------------- Spec: simulate_framewise
\* The confidence-interval and floor settings the engine is run with
\* (ci_abs, ci_rel, ci_min_bits, ber_floor).
CiSettings ==
    {[ci_abs |-> Zero,      ci_rel |-> Zero,      ci_min_bits |-> 2, ber_floor |-> Zero],
     [ci_abs |-> Rat(1, 3), ci_rel |-> Zero,      ci_min_bits |-> 0, ber_floor |-> Zero],
     [ci_abs |-> Zero,      ci_rel |-> Rat(1, 1), ci_min_bits |-> 2, ber_floor |-> Rat(3, 5)]}

\* The calls of simulate_framewise that are checked; ci_level is such that
\* z = 2 (simulation.cpp:87), so z2 = z * z = 4.
Configs ==
    {[min_errors |-> me, max_bits |-> mb, frame_len |-> fl, threads |-> th,
      ci_abs |-> ci.ci_abs, ci_rel |-> ci.ci_rel,
      ci_min_bits |-> ci.ci_min_bits, ber_floor |-> ci.ber_floor, z2 |-> 4] :
        me \in {0, MaxMinErrors}, mb \in {0, 1, MaxMaxBits},
        fl \in 1..MaxFrameLen,
        th \in 1..MaxThreads, ci \in CiSettings}

\* simulation.cpp:89-93: a request of 0 means the detected concurrency, at
\* least 1.  The driver resolves 0 before the call (main.cpp:155-161), so
\* the engine is always called with a positive count.
NThreads(requested, hardware) ==
    LET h == IF hardware = 0 THEN 1 ELSE hardware
    IN  IF requested = 0 THEN h ELSE requested

Workers == 1..n_threads

\* A run with max_bits = 0 need not end; the model lets no frame start once
\* total_bits has reached BitsCap.  With max_bits > 0 the cap is never
\* reached while stop is false (CapNeverBinds).
BitsCap ==
    IF cfg.max_bits > 0 THEN cfg.max_bits + n_threads * cfg.frame_len
    ELSE MaxMaxBits + 2 * cfg.frame_len

\* The state of simulate_framewise once line 128 is passed.
EngineStart ==
    /\ n_threads = NThreads(cfg.threads, 0)
    /\ total_bits = 0
    /\ total_err = 0
    /\ stop = FALSE
    /\ pc = [t \in 1..n_threads |-> "unborn"]
    /\ wl = [t \in 1..n_threads |-> NoLocals]
    /\ mpc = "spawn"
    /\ nspawn = 0
    /\ njoin = 0
    /\ result = NoResult
    /\ sum_bits = 0
    /\ sum_errs = 0
    /\ stop0 = NoStop
    /\ after_stop = [t \in 1..n_threads |-> 0]

Init ==
    /\ cfg \in Configs
    /\ EngineStart
    /\ stream = [t \in 1..n_threads |-> <<>>]
    /\ drawn = [t \in 1..n_threads |-> 0]
    /\ replay = "off"
    /\ first_result = NoResult
    /\ ChainIdle
    /\ SweepIdle
    /\ SeedIdle

\* simulation.cpp:219-220: create the next worker.
Spawn ==
    /\ mpc = "spawn"
    /\ nspawn < n_threads
    /\ pc' = [pc EXCEPT ![nspawn + 1] = "loop"]
    /\ nspawn' = nspawn + 1
    /\ mpc' = IF nspawn + 1 = n_threads THEN "join" ELSE "spawn"
    /\ UNCHANGED <<seedVars, sweepVars, cfg, n_threads, total_bits, total_err, stop, wl, njoin,
                   result, ghostVars, detVars, chainVars>>

\* simulation.cpp:222: th.join() returns once the worker has ended.
JoinReadyNoWait(t) == TRUE
JoinReady(t) == pc[t] = "exit"

\* simulation.cpp:221-222: join the next worker.
Join ==
    /\ mpc = "join"
    /\ njoin < n_threads
    /\ JoinReady(njoin + 1)
    /\ njoin' = njoin + 1
    /\ mpc' = IF njoin + 1 = n_threads THEN "ret_ci" ELSE "join"
    /\ UNCHANGED <<seedVars, sweepVars, cfg, n_threads, total_bits, total_err, stop, pc, wl,
                   nspawn, result, ghostVars, detVars, chainVars>>

\* simulation.cpp:224-226: the interval of the result; its bounds are the
\* Wilson bounds of (e, n) when computed and 0, 0 otherwise.
ReturnCI ==
    /\ mpc = "ret_ci"
    /\ result' = [result EXCEPT !.ci =
                    IF (cfg.ci_abs.n > 0 \/ cfg.ci_rel.n > 0) /\ total_bits > 0
                       /\ cfg.z2 > 0
                    THEN [computed |-> TRUE, e |-> total_err, n |-> total_bits]
                    ELSE NoCI]
    /\ mpc' = "ret_ber"
    /\ UNCHANGED <<seedVars, sweepVars, cfg, n_threads, total_bits, total_err, stop, pc, wl,
                   nspawn, njoin, ghostVars, detVars, chainVars>>

\* simulation.cpp:228: ber, the quotient errs / bits as a fraction.
ResultBer(e, b) == IF b > 0 THEN Rat(e, b) ELSE Zero

ReturnBer ==
    /\ mpc = "ret_ber"
    /\ result' = [result EXCEPT !.ber = ResultBer(total_err, total_bits)]
    /\ mpc' = "ret_fields"
    /\ UNCHANGED <<seedVars, sweepVars, cfg, n_threads, total_bits, total_err, stop, pc, wl,
                   nspawn, njoin, ghostVars, detVars, chainVars>>

\* simulation.cpp:229: the record returned.
ReturnFields ==
    /\ mpc = "ret_fields"
    /\ result' = [result EXCEPT !.bits = total_bits, !.errs = total_err]
    /\ mpc' = "done"
    /\ UNCHANGED <<seedVars, sweepVars, cfg, n_threads, total_bits, total_err, stop, pc, wl,
                   nspawn, njoin, ghostVars, detVars, chainVars>>

Main == Spawn \/ Join \/ ReturnCI \/ ReturnBer \/ ReturnFields

\* simulation.cpp:142-200: the outcomes (L, local_err) a frame can have.
\* Both coders return frame_len decoded bits, and with noise every word of
\* that length can be decoded.
FrameOutcomesRagged(fl) ==
    {FrameCount(uu, uh) : uu \in [1..fl -> {0, 1}],
                          uh \in [1..(fl - 1) -> {0, 1}]}
FrameOutcomes(fl) ==
    {FrameCount(uu, uh) : uu \in [1..fl -> {0, 1}], uh \in [1..fl -> {0, 1}]}

\* The outcome of frame k of worker t: drawn from the worker's generator,
\* which a second execution with the same seed repeats (simulation.cpp:132).
NextOutcomes(t) ==
    IF replay = "replay" /\ drawn[t] < Len(stream[t])
    THEN {stream[t][drawn[t] + 1]}
    ELSE FrameOutcomes(cfg.frame_len)

\* simulation.cpp:140, the value of !stop.load() the loop acts on.
KeepGoingAlways(st) == TRUE
KeepGoing(st) == ~st

\* simulation.cpp:140-200: the loop test, then the frame body.
WorkerLoop(t) ==
    /\ pc[t] = "loop"
    /\ IF KeepGoing(stop)
       THEN /\ total_bits < BitsCap
            /\ \E fc \in NextOutcomes(t) :
                   /\ wl' = [wl EXCEPT ![t] = [L |-> fc.L,
                                               local_err |-> fc.local_err,
                                               bits_after |-> 0,
                                               errs_after |-> 0]]
                   /\ sum_bits' = sum_bits + fc.L
                   /\ sum_errs' = sum_errs + fc.local_err
                   /\ stream' = IF replay = "record"
                                THEN [stream EXCEPT ![t] = Append(@, fc)]
                                ELSE stream
            /\ drawn' = IF replay = "off" THEN drawn
                        ELSE [drawn EXCEPT ![t] = @ + 1]
            /\ pc' = [pc EXCEPT ![t] = "pub_bits"]
       ELSE /\ pc' = [pc EXCEPT ![t] = "exit"]
            /\ UNCHANGED <<seedVars, sweepVars, wl, sum_bits, sum_errs, stream, drawn>>
    /\ UNCHANGED <<seedVars, sweepVars, cfg, n_threads, total_bits, total_err, stop, mpc,
                   nspawn, njoin, result, stop0, after_stop, replay,
                   first_result, chainVars>>

\* The value fetch_add leaves in the counter.
FetchAddStore(cur, delta) == delta
FetchAdd(cur, delta) == cur + delta

\* simulation.cpp:203.
PublishBits(t) ==
    /\ pc[t] = "pub_bits"
    /\ total_bits' = FetchAdd(total_bits, wl[t].L)
    /\ wl' = [wl EXCEPT ![t].bits_after = total_bits + wl[t].L]
    /\ after_stop' = [after_stop EXCEPT ![t] = IF stop0.set THEN @ + 1 ELSE @]
    /\ pc' = [pc EXCEPT ![t] = "pub_errs"]
    /\ UNCHANGED <<seedVars, sweepVars, cfg, n_threads, total_err, stop, mpc, nspawn, njoin,
                   result, sum_bits, sum_errs, stop0, detVars, chainVars>>

\* simulation.cpp:204.
PublishErrs(t) ==
    /\ pc[t] = "pub_errs"
    /\ total_err' = FetchAdd(total_err, wl[t].local_err)
    /\ wl' = [wl EXCEPT ![t].errs_after = total_err + wl[t].local_err]
    /\ pc' = [pc EXCEPT ![t] = "eval"]
    /\ UNCHANGED <<seedVars, sweepVars, cfg, n_threads, total_bits, stop, mpc, nspawn, njoin,
                   result, ghostVars, detVars, chainVars>>

\* simulation.cpp:206-213: the stop predicates on the snapshots, then the
\* store to stop and the break, or the next iteration.
Evaluate(t) ==
    /\ pc[t] = "eval"
    /\ IF ShouldStop(cfg, wl[t].bits_after, wl[t].errs_after)
       THEN /\ stop' = TRUE
            /\ stop0' = IF stop0.set THEN stop0
                        ELSE [set |-> TRUE, bits |-> total_bits,
                              errs |-> total_err]
            /\ pc' = [pc EXCEPT ![t] = "exit"]
       ELSE /\ pc' = [pc EXCEPT ![t] = "loop"]
            /\ UNCHANGED <<seedVars, sweepVars, stop, stop0>>
    /\ wl' = [wl EXCEPT ![t] = NoLocals]
    /\ UNCHANGED <<seedVars, sweepVars, cfg, n_threads, total_bits, total_err, mpc, nspawn,
                   njoin, result, sum_bits, sum_errs, after_stop, detVars,
                   chainVars>>

Worker(t) == WorkerLoop(t) \/ PublishBits(t) \/ PublishErrs(t) \/ Evaluate(t)

Next == Main \/ \E t \in Workers : Worker(t)

Spec == Init /\ [][Next]_vars

\* ------------------------------------------------ the engine's contract
\* With max_bits > 0 the cap on the frames of the model never holds a
\* worker back: at a loop test that finds stop false, total_bits is below
\* the cap.
CapNeverBinds ==
    \A t \in Workers :
        (cfg.max_bits > 0 /\ pc[t] = "loop" /\ ~stop) => total_bits < BitsCap

\* C2: every BerResult returned by simulate_framewise has errs <= bits,
\* ber = errs / bits when bits > 0 and ber = 0 when bits = 0, for any
\* number of workers and any interleaving of their counter updates.
BerResultInvariants ==
    mpc = "done" =>
        /\ result.errs <= result.bits
        /\ IF result.bits > 0
           THEN /\ result.ber.d > 0
                /\ result.ber.n * result.bits = result.errs * result.ber.d
           ELSE result.ber.n = 0

\* A result returned after several workers have published, with errors.
BerResultReturned ==
    /\ mpc = "done"
    /\ n_threads >= 2
    /\ result.errs > 0
    /\ result.errs < result.bits
    /\ result.bits > cfg.frame_len

\* C3: once stop has been set, total_bits and total_err each grow by at
\* most threads * frame_len until all workers have exited, and each worker
\* publishes at most one more frame.
OvershootBound ==
    stop0.set =>
        /\ total_bits - stop0.bits <= n_threads * cfg.frame_len
        /\ total_err - stop0.errs <= n_threads * cfg.frame_len
        /\ \A t \in Workers : after_stop[t] <= 1

\* All workers have exited and one of them published a frame, with errors,
\* after stop was set.
OvershootHappened ==
    /\ stop0.set
    /\ \A t \in Workers : pc[t] = "exit"
    /\ total_bits > stop0.bits
    /\ total_err > stop0.errs
    /\ \E t \in Workers : after_stop[t] = 1

\* The sum of f[1..n].
RECURSIVE SumOver(_, _)
SumOver(f, n) == IF n = 0 THEN 0 ELSE f[n] + SumOver(f, n - 1)

\* The compared bits and the errors of the frames that are complete and
\* not yet published (between line 200 and line 203, resp. 204).
InFlightBits ==
    SumOver([t \in Workers |-> IF pc[t] = "pub_bits" THEN wl[t].L ELSE 0],
            n_threads)
InFlightErrs ==
    SumOver([t \in Workers |-> IF pc[t] \in {"pub_bits", "pub_errs"}
                               THEN wl[t].local_err ELSE 0], n_threads)

\* Every completed frame is in each counter once, as soon as it has been
\* published there, and the result returned holds the sums over all
\* completed frames.
AccountingExact ==
    /\ total_bits + InFlightBits = sum_bits
    /\ total_err + InFlightErrs = sum_errs
    /\ mpc = "done" => (result.bits = sum_bits /\ result.errs = sum_errs)

\* C4: when simulate_framewise returns, total_bits is the sum of the
\* compared-bit counts and total_err the sum of the local error counts of
\* all frames completed by all workers, every completed frame is counted
\* exactly once, and neither counter ever decreases during the run.
UnbiasedAccounting ==
    /\ []AccountingExact
    /\ [][total_bits' >= total_bits /\ total_err' >= total_err]_vars

\* A return after two workers have each completed a frame with an error.
AccountingReturned ==
    /\ mpc = "done"
    /\ n_threads >= 2
    /\ sum_bits >= 2 * cfg.frame_len
    /\ sum_errs >= 2
    /\ result.bits = sum_bits

\* ------------------------------------------------------- SpecFair
\* The scheduler lets the calling thread and every worker thread that has
\* a step to take run eventually.
SpecFair ==
    /\ Spec
    /\ WF_vars(Main)
    /\ \A t \in 1..MaxThreads : WF_vars(t \in Workers /\ Worker(t))

\* Every worker has left its loop, all are joined and the call has
\* returned.
Returned ==
    /\ stop
    /\ \A t \in Workers : pc[t] = "exit"
    /\ njoin = n_threads
    /\ mpc = "done"

\* C5: with max_bits > 0 and frame_len > 0, under fair scheduling of the
\* workers, stop is eventually set, every worker then leaves its loop after
\* at most its current frame, all workers are joined and
\* simulate_framewise returns.
CooperativeTermination ==
    (cfg.max_bits > 0 /\ cfg.frame_len > 0) =>
        /\ <>stop
        /\ [](stop => \A t \in Workers : after_stop[t] <= 1)
        /\ <>Returned

\* A return with max_bits > 0 after a worker finished the frame it was in
\* when stop was set.
TerminatedAfterStop ==
    /\ cfg.max_bits > 0
    /\ Returned
    /\ n_threads >= 2
    /\ \E t \in Workers : after_stop[t] = 1

\* -------------------------------------------------------- SpecDet
\* Two executions of one SNR point with the same configuration, worker
\* count and non-zero seed.  Worker t seeds its generator from the base
\* seed and t alone (simulation.cpp:124-132), so in the second execution
\* its k-th frame has the outcome recorded for its k-th frame in the first.
InitDet ==
    /\ cfg \in Configs
    /\ EngineStart
    /\ stream = [t \in 1..n_threads |-> <<>>]
    /\ drawn = [t \in 1..n_threads |-> 0]
    /\ replay = "record"
    /\ first_result = NoResult
    /\ ChainIdle
    /\ SweepIdle
    /\ SeedIdle

\* The first execution has returned; the second starts from the state of
\* simulate_framewise after line 128, with the same seeds.
Restart ==
    /\ replay = "record"
    /\ mpc = "done"
    /\ first_result' = result
    /\ replay' = "replay"
    /\ drawn' = [t \in Workers |-> 0]
    /\ total_bits' = 0
    /\ total_err' = 0
    /\ stop' = FALSE
    /\ pc' = [t \in Workers |-> "unborn"]
    /\ wl' = [t \in Workers |-> NoLocals]
    /\ mpc' = "spawn"
    /\ nspawn' = 0
    /\ njoin' = 0
    /\ result' = NoResult
    /\ sum_bits' = 0
    /\ sum_errs' = 0
    /\ stop0' = NoStop
    /\ after_stop' = [t \in Workers |-> 0]
    /\ UNCHANGED <<seedVars, sweepVars, cfg, n_threads, stream, chainVars>>

NextDet == Next \/ Restart

SpecDet == InitDet /\ [][NextDet]_vars

\* C1: two executions with identical configuration, identical worker count
\* and identical non-zero seed produce identical result records (bits,
\* errs, ber, ci_lo, ci_hi), whatever the scheduling of the worker threads.
Determinism ==
    (replay = "replay" /\ mpc = "done") => result = first_result

\* With a single worker the second execution returns the record of the
\* first.
DeterminismOneWorker ==
    (replay = "replay" /\ mpc = "done" /\ n_threads = 1) =>
        result = first_result

\* ------------------------------------------ the frame body's contract
\* C6: when the channel returns y = s with gain 1 (AWGN, sigma = 0), then
\* for every modem, every coder and every frame length > 0, ragged last
\* symbol groups included, the frame body yields u_hat = u and a local
\* error count of 0.
NoiseFreeRoundTrip ==
    (stage = "done" /\ channel = "awgn" /\ sigma = 0) =>
        (u_hat = u /\ cnt.local_err = 0)

\* A noise-free frame whose last symbol group was ragged and zero-padded.
RaggedFrameDone ==
    /\ stage = "done"
    /\ channel = "awgn"
    /\ sigma = 0
    /\ modem = "ask4_gray"
    /\ Len(c) % BitsPerSymbol(modem) # 0
    /\ Len(u) >= 3
    /\ u[Len(u)] = 1
    /\ cnt.L = Len(u)

\* The 8-slot array that holds the bits of bb in its first slots.
InSlots(bb) == [k \in 1..8 |-> IF k <= Len(bb) THEN bb[k] ELSE 0]

\* The symbols a modem's modulate returns over all its bit groups.
Alphabet(md) ==
    {Modulate(md, InSlots(bb)) : bb \in [1..BitsPerSymbol(md) -> {0, 1}]}

\* C10: for each of the Gray and Natural mappings modulate maps the four
\* bit pairs one-to-one onto {-3, -1, +1, +3} and demodulate(modulate(b0,
\* b1)) = (b0, b1) for every bit pair; likewise 2-ASK
\* demodulate(modulate(b)) = b.
MappingBijection ==
    symrec.valid =>
        LET mbs == BitsPerSymbol(modem)
        IN  /\ Alphabet(modem) = IF modem = "ask2" THEN {-1, 1}
                                 ELSE {-3, -1, 1, 3}
            /\ \A bb \in [1..mbs -> {0, 1}] :
                   Modulate(modem, InSlots(bb)) = symrec.s =>
                       \A k \in 1..mbs : bb[k] = symrec.inbits[k]
            /\ symrec.r_eq = symrec.s =>
                   \A k \in 1..mbs : symrec.outbits[k] = symrec.inbits[k]

\* The Gray modem has sent the pair (1, 0) as +3 and received it exactly.
GrayPairSent ==
    /\ symrec.valid
    /\ modem = "ask4_gray"
    /\ symrec.inbits[1] = 1
    /\ symrec.inbits[2] = 0
    /\ symrec.s = 3
    /\ symrec.r_eq = symrec.s
    /\ symrec.outbits[1] = 1

\* --------------------------------------------------- the coder's contract
\* C7: for every bit string u of every length n >= 0,
\* ConvK7R12::decode(ConvK7R12::encode(u)) equals u bit for bit.
ViterbiRoundTrip ==
    (stage = "decoded" /\ coder = "conv_k7_r12" /\ c_hat = c) => u_hat = u

\* An encoded word of full length has been decoded unchanged.
CodewordDecoded ==
    /\ stage = "decoded"
    /\ coder = "conv_k7_r12"
    /\ c_hat = c
    /\ Len(u) = MaxInfoLen
    /\ u[1] = 1
    /\ u_hat = u

\* C8: for every input of length n, ConvK7R12::encode emits exactly
\* 2 * (n + 6) bits, discarding any previous content of the output vector.
EncoderLengthLaw ==
    (stage \in {"coded", "decoded"} /\ coder = "conv_k7_r12") =>
        Len(c) = 2 * (Len(u) + 6)

\* The encoder has just been called on a word of full length.
WordEncoded ==
    /\ stage = "coded"
    /\ coder = "conv_k7_r12"
    /\ Len(u) = MaxInfoLen
    /\ c_hat = c
    /\ Len(c) = 2 * MaxInfoLen + 12

\* C9: for every received sequence c_hat of any length (empty, odd, shorter
\* than 14, or with arbitrary bit errors) ConvK7R12::decode ends with every
\* trellis and traceback index inside its table (state in 0..63) and
\* returns exactly max(0, floor(|c_hat| / 2) - 6) bits.
DecoderTotal ==
    (stage \in {"decoded", "raw_decoded"} /\ coder = "conv_k7_r12") =>
        /\ Len(u_hat) = Max(0, (Len(c_hat) \div 2) - 6)
        /\ dtrace.inb
        /\ Len(dtrace.path) = Len(c_hat) \div 2
        /\ \A k \in 1..Len(dtrace.path) : dtrace.path[k] \in 0..63
        /\ dtrace.last \in 0..63

\* An odd-length word shorter than 14 bits has been decoded to nothing.
ShortWordDecoded ==
    /\ stage = "raw_decoded"
    /\ coder = "conv_k7_r12"
    /\ Len(c_hat) = 7
    /\ c_hat[1] = 1
    /\ Len(dtrace.path) = 3
    /\ u_hat = <<>>

\* ------------------------------------------------ the Rayleigh channel
\* C11: with the Rayleigh channel the additive Gaussian noise enters in the
\* engine's equalization step: the equalized observation handed to the hard
\* demodulator is the transmitted symbol plus a noise term of variance
\* sigma^2 / gain^2, so for every value n the noise sample can take, s +
\* n / gain is an observation the step can produce for the gain drawn.
RayleighNoiseEnters ==
    (symrec.valid /\ channel = "rayleigh" /\ symrec.gain > 0) =>
        \A n \in NoiseSamples(sigma) :
            \E ch \in ChannelOutputs(channel, symrec.s, sigma, FALSE) :
                /\ ch.gain = symrec.gain
                /\ Equalize(ch) * ch.gain = symrec.s * ch.gain + n

\* What the code does instead: with a positive gain the equalized
\* observation is the transmitted symbol itself, whatever sigma is, and the
\* bits demodulated are the bits sent.
RayleighExact ==
    (symrec.valid /\ channel = "rayleigh" /\ symrec.gain > 0) =>
        /\ symrec.r_eq = symrec.s
        /\ \A k \in 1..BitsPerSymbol(modem) :
               symrec.outbits[k] = symrec.inbits[k]

\* --------------------------------------------------- the stop decision
\* The half-width bounds of the CI goals that are enabled, on the snapshot
\* (b, e): half <= ci_abs and half <= ci_rel * max(p, 1e-12).
HalfWidthBoundsHold(k, b, e) ==
    /\ k.ci_abs.n > 0 => HalfLeq(e, b, k.z2, k.ci_abs)
    /\ k.ci_rel.n > 0 =>
           IF PAboveFloor(e, b)
           THEN HalfLeq(e, b, k.z2, Rat(k.ci_rel.n * e, k.ci_rel.d * b))
           ELSE HalfLeqTiny(e, b, k.z2, k.ci_rel)

\* C12 as stated: on a snapshot (b, e) the CI-goals stop predicate is true
\* exactly when (min_errors = 0 or e >= min_errors) and b >= ci_min_bits
\* and every enabled half-width bound holds; no worker sets stop through it
\* on a snapshot with b < ci_min_bits.
CiGoalsGuarded ==
    \A t \in Workers :
        pc[t] = "eval" =>
            LET b == wl[t].bits_after
                e == wl[t].errs_after
            IN  StopByCi(cfg, b, e) <=>
                    /\ (cfg.min_errors = 0 \/ e >= cfg.min_errors)
                    /\ b >= cfg.ci_min_bits
                    /\ HalfWidthBoundsHold(cfg, b, e)

\* C12 amended: the predicate is true exactly when (min_errors = 0 or
\* e >= min_errors) and, if ci_abs or ci_rel is enabled, b >= ci_min_bits
\* and every enabled half-width bound holds; with both disabled the
\* ci_min_bits guard does not apply.
CiGoalsExact ==
    \A t \in Workers :
        pc[t] = "eval" =>
            LET b == wl[t].bits_after
                e == wl[t].errs_after
            IN  StopByCi(cfg, b, e) <=>
                    /\ (cfg.min_errors = 0 \/ e >= cfg.min_errors)
                    /\ (cfg.ci_abs.n > 0 \/ cfg.ci_rel.n > 0) =>
                           /\ b >= cfg.ci_min_bits
                           /\ HalfWidthBoundsHold(cfg, b, e)

\* A worker is about to set stop through the CI goals, with a relative
\* bound enabled, min_errors reached and the ci_min_bits guard passed.
CiGoalsStop ==
    \E t \in Workers :
        /\ pc[t] = "eval"
        /\ cfg.ci_rel.n > 0
        /\ cfg.min_errors > 0
        /\ cfg.ci_min_bits > 0
        /\ wl[t].bits_after >= cfg.ci_min_bits
        /\ StopByCi(cfg, wl[t].bits_after, wl[t].errs_after)
        /\ ~StopByMax(cfg, wl[t].bits_after)

\* ------------------------------------------------- SpecSweep: the driver
\* The largest snr_stop_db and snr_step_db of the configurations checked.
MaxSnrStop == 2
MaxSnrStep == 2

\* What main finds when it starts: whether Config::load, the component
\* selectors, create_directories and the opening of the file succeed, the
\* SNR keys of the file (whole dB values) and the detected concurrency.
Envs ==
    {[config_ok |-> ok, selectors_ok |-> m, dir_ok |-> d, open_ok |-> o,
      snr_start |-> a, snr_stop |-> b, snr_step |-> st, hw |-> h] :
        ok \in BOOLEAN, m \in BOOLEAN, d \in BOOLEAN, o \in BOOLEAN,
        a \in 0..1, b \in 0..MaxSnrStop, st \in 0..MaxSnrStep, h \in {0, 1}}

\* The engine parameters of the configurations checked: one frame of one
\* bit per worker and point (max_bits = 1), with the interval goals and the
\* floor off, both on, and the floor alone on.
SweepSettings ==
    {[ci_abs |-> Zero, ci_rel |-> Zero,      ci_min_bits |-> 0, ber_floor |-> Zero],
     [ci_abs |-> Zero, ci_rel |-> Rat(1, 1), ci_min_bits |-> 0, ber_floor |-> Rat(7, 10)],
     [ci_abs |-> Zero, ci_rel |-> Zero,      ci_min_bits |-> 0, ber_floor |-> Rat(7, 10)]}

SweepConfigs ==
    {[min_errors |-> 0, max_bits |-> 1, frame_len |-> 1, threads |-> th,
      ci_abs |-> ci.ci_abs, ci_rel |-> ci.ci_rel,
      ci_min_bits |-> ci.ci_min_bits, ber_floor |-> ci.ber_floor, z2 |-> 4] :
        th \in {0, MaxThreads}, ci \in SweepSettings}

\* config.cpp:128-131, the validation of the SNR keys.
SnrValid(e) == e.snr_step > 0 /\ e.snr_stop >= e.snr_start

\* main.cpp:179 and utils.cpp:23,
\*   n = floor((stop - start) / step + 0.5) + 1
\*     = floor((2 (stop - start) + step) / (2 step)) + 1.
NumPointsTruncated(start_db, stop_db, step_db) ==
    ((stop_db - start_db) \div step_db) + 1
NumPoints(start_db, stop_db, step_db) ==
    ((2 * (stop_db - start_db) + step_db) \div (2 * step_db)) + 1

\* main.cpp:183 and utils.cpp:26, the SNR of point i.
SnrAt(start_db, step_db, k) == start_db + (k * step_db)

InitSweep ==
    /\ env \in Envs
    /\ cfg \in SweepConfigs
    /\ dpc = "load"
    /\ exit_code = -1
    /\ pt = 0
    /\ npoints = 0
    /\ sink = NoSink
    /\ caller_rng = 0
    /\ calls = 0
    /\ n_threads = 0
    /\ total_bits = 0
    /\ total_err = 0
    /\ stop = FALSE
    /\ pc = <<>>
    /\ wl = <<>>
    /\ mpc = "idle"
    /\ nspawn = 0
    /\ njoin = 0
    /\ result = NoResult
    /\ sum_bits = 0
    /\ sum_errs = 0
    /\ stop0 = NoStop
    /\ after_stop = <<>>
    /\ stream = <<>>
    /\ drawn = <<>>
    /\ replay = "off"
    /\ first_result = NoResult
    /\ ChainIdle
    /\ SeedIdle

\* main.cpp:214-218, the handler of the function try block.
Catch ==
    /\ dpc' = "exited"
    /\ exit_code' = 1

\* main.cpp:144: Config::load throws when a key is missing or a value is
\* rejected (config.cpp:128-139).
LoadConfig ==
    /\ dpc = "load"
    /\ IF env.config_ok /\ SnrValid(env)
       THEN dpc' = "components" /\ exit_code' = exit_code
       ELSE Catch
    /\ UNCHANGED <<seedVars, env, pt, npoints, sink, caller_rng, calls, engineVars,
                   ghostVars, detVars, chainVars>>

\* main.cpp:147-149: make_modem, make_channel and make_coder throw
\* std::invalid_argument for a name they do not know (main.cpp:111, 123, 135).
MakeComponents ==
    /\ dpc = "components"
    /\ IF env.selectors_ok
       THEN dpc' = "threads" /\ exit_code' = exit_code
       ELSE Catch
    /\ UNCHANGED <<seedVars, env, pt, npoints, sink, caller_rng, calls, engineVars,
                   ghostVars, detVars, chainVars>>

\* main.cpp:152-161: the generator is seeded (no draw) and the worker count
\* is decided.
DecideThreads ==
    /\ dpc = "threads"
    /\ n_threads' = NThreads(cfg.threads, env.hw)
    /\ dpc' = "resolve"
    /\ UNCHANGED <<seedVars, env, exit_code, pt, npoints, sink, caller_rng, calls, cfg,
                   total_bits, total_err, stop, pc, wl, mpc, nspawn, njoin,
                   result, ghostVars, detVars, chainVars>>

\* The failures of the output path that raise an exception.
ResolveThrows(e) == ~e.dir_ok

\* main.cpp:165 and 46-91: resolve_output_path creates the directory
\* (main.cpp:77, 89); std::filesystem::create_directories reports a failure
\* by throwing std::filesystem::filesystem_error.
ResolveOutputPath ==
    /\ dpc = "resolve"
    /\ IF ResolveThrows(env)
       THEN Catch
       ELSE dpc' = "open" /\ exit_code' = exit_code
    /\ UNCHANGED <<seedVars, env, pt, npoints, sink, caller_rng, calls, engineVars,
                   ghostVars, detVars, chainVars>>

\* main.cpp:166-171: open the file, return 2 when that failed.  A file
\* cannot be opened in a directory that could not be created.
OpenSink ==
    /\ dpc = "open"
    /\ IF env.open_ok /\ env.dir_ok
       THEN /\ sink' = [sink EXCEPT !.open = TRUE]
            /\ dpc' = "header"
            /\ exit_code' = exit_code
       ELSE /\ sink' = sink
            /\ dpc' = "exited"
            /\ exit_code' = 2
    /\ UNCHANGED <<seedVars, env, pt, npoints, caller_rng, calls, engineVars,
                   ghostVars, detVars, chainVars>>

\* main.cpp:174-179: the header line, then the number of points.
WriteHeader ==
    /\ dpc = "header"
    /\ sink' = [sink EXCEPT !.header = TRUE]
    /\ npoints' = NumPoints(env.snr_start, env.snr_stop, env.snr_step)
    /\ pt' = 0
    /\ dpc' = "loop"
    /\ UNCHANGED <<seedVars, env, exit_code, caller_rng, calls, engineVars, ghostVars,
                   detVars, chainVars>>

\* simulation.cpp:126, the draws simulate_framewise takes from the caller's
\* generator for the seeds of nt workers.
SeedDrawsPerWorker(nt) == nt
SeedDraws(nt) == 1

\* main.cpp:181, the loop test; then main.cpp:186-190 and
\* simulation.cpp:86-128, the call of simulate_framewise up to the seeds,
\* or main.cpp:212 when the grid is exhausted.
CallEngine ==
    /\ dpc = "loop"
    /\ IF pt < npoints
       THEN /\ n_threads' = NThreads(n_threads, env.hw)
            /\ caller_rng' = caller_rng + SeedDraws(n_threads')
            /\ calls' = calls + 1
            /\ total_bits' = 0
            /\ total_err' = 0
            /\ stop' = FALSE
            /\ pc' = [t \in 1..n_threads' |-> "unborn"]
            /\ wl' = [t \in 1..n_threads' |-> NoLocals]
            /\ mpc' = "spawn"
            /\ nspawn' = 0
            /\ njoin' = 0
            /\ result' = NoResult
            /\ sum_bits' = 0
            /\ sum_errs' = 0
            /\ stop0' = NoStop
            /\ after_stop' = [t \in 1..n_threads' |-> 0]
            /\ stream' = [t \in 1..n_threads' |-> <<>>]
            /\ drawn' = [t \in 1..n_threads' |-> 0]
            /\ dpc' = "engine"
            /\ exit_code' = exit_code
       ELSE /\ dpc' = "exited"
            /\ exit_code' = 0
            /\ UNCHANGED <<seedVars, caller_rng, calls, n_threads, total_bits,
                           total_err, stop, pc, wl, mpc, nspawn, njoin,
                           result, ghostVars, stream, drawn>>
    /\ UNCHANGED <<seedVars, env, pt, npoints, sink, cfg, replay, first_result,
                   chainVars>>

\* main.cpp:193-194: append the line of this point once the call has
\* returned.
WriteRecord ==
    /\ dpc = "engine"
    /\ mpc = "done"
    /\ sink' = [sink EXCEPT !.records =
                   Append(@, [point |-> pt,
                              snr |-> SnrAt(env.snr_start, env.snr_step, pt)])]
    /\ mpc' = "idle"
    /\ dpc' = "floor"
    /\ UNCHANGED <<seedVars, env, exit_code, pt, npoints, caller_rng, calls, cfg,
                   n_threads, total_bits, total_err, stop, pc, wl, nspawn,
                   njoin, result, ghostVars, detVars, chainVars>>

\* main.cpp:204, ber_for_stop <= f: ber_for_stop is ci_hi when ci_hi > 0
\* and ber otherwise; a computed ci_hi is positive, one not computed is 0.
BerForStopLeqHiOnly(k, r, f) ==
    IF r.ci.computed THEN HiLeq(r.ci.e, r.ci.n, k.z2, f) ELSE TRUE
BerForStopLeq(k, r, f) ==
    IF r.ci.computed THEN HiLeq(r.ci.e, r.ci.n, k.z2, f)
    ELSE r.ber.n * f.d <= f.n * r.ber.d

\* main.cpp:205, the condition of the break.
FloorReached(k, r) == k.ber_floor.n > 0 /\ BerForStopLeq(k, r, k.ber_floor)

\* main.cpp:204-210: break, or the next point.
FloorCheck ==
    /\ dpc = "floor"
    /\ IF FloorReached(cfg, result)
       THEN /\ dpc' = "exited"
            /\ exit_code' = 0
            /\ pt' = pt
       ELSE /\ dpc' = "loop"
            /\ exit_code' = exit_code
            /\ pt' = pt + 1
    /\ UNCHANGED <<seedVars, env, npoints, sink, caller_rng, calls, engineVars,
                   ghostVars, detVars, chainVars>>

Driver ==
    \/ LoadConfig
    \/ MakeComponents
    \/ DecideThreads
    \/ ResolveOutputPath
    \/ OpenSink
    \/ WriteHeader
    \/ CallEngine
    \/ WriteRecord
    \/ FloorCheck

\* The workers are those of the invocation in progress, if any.
NextSweep == Driver \/ Main \/ \E t \in DOMAIN pc : Worker(t)

SpecSweep == InitSweep /\ [][NextSweep]_vars

\* r.ber <= f.
BerLeq(r, f) == r.ber.n * f.d <= f.n * r.ber.d

\* The reported ci_hi of r is at most f: the Wilson bound when the interval
\* was computed, and 0 otherwise (simulation.cpp:224-226).
ReportedHiLeq(k, r, f) == r.ci.computed => HiLeq(r.ci.e, r.ci.n, k.z2, f)

\* The lines of the sink are those of points 0 .. m - 1, in this order.
RecordsUpTo(m) ==
    /\ Len(sink.records) = m
    /\ \A j \in 1..m :
           /\ sink.records[j].point = j - 1
           /\ sink.records[j].snr = SnrAt(env.snr_start, env.snr_step, j - 1)

\* C13, the claim as stated: with ber_floor > 0 the sweep goes on after a
\* point only if the reported ci_hi of that point is above ber_floor, it
\* ends after a point before the grid is exhausted only if that ci_hi is at
\* most ber_floor, and then the record of that point is the last one.
FloorStopOnReportedHi ==
    cfg.ber_floor.n > 0 =>
        /\ (dpc = "loop" /\ pt >= 1) =>
               ~ReportedHiLeq(cfg, result, cfg.ber_floor)
        /\ (dpc = "exited" /\ exit_code = 0 /\ pt < npoints) =>
               /\ ReportedHiLeq(cfg, result, cfg.ber_floor)
               /\ RecordsUpTo(pt + 1)

\* C13, amended: the sweep ends after a point before the grid is exhausted
\* exactly when ber_floor > 0 and max(ci_hi, ber) <= ber_floor for that
\* point (so with the interval not computed, ci_hi = 0, it is ber that is
\* compared); the record of that point is then the last one, and a sweep
\* that is not cut short has one record per grid point.
FloorSweepStop ==
    LET rule == /\ cfg.ber_floor.n > 0
                /\ ReportedHiLeq(cfg, result, cfg.ber_floor)
                /\ BerLeq(result, cfg.ber_floor)
    IN  /\ (dpc = "loop" /\ pt >= 1) => ~rule
        /\ (dpc = "exited" /\ exit_code = 0 /\ pt < npoints) =>
               (rule /\ RecordsUpTo(pt + 1))
        /\ (dpc = "exited" /\ exit_code = 0 /\ pt >= npoints) =>
               RecordsUpTo(npoints)

\* A sweep was cut short by the floor with points of the grid left.
SweepEndedAtFloor ==
    /\ dpc = "exited"
    /\ exit_code = 0
    /\ pt + 1 < npoints
    /\ result.ci.computed
    /\ Len(sink.records) = pt + 1

\* Worker t has been created and has not ended.
Alive(t) == pc[t] \notin {"unborn", "exit"}

\* C14: the sink is written only by the driver and only while no worker
\* exists: while an invocation of the engine is in progress the sink holds
\* the records of the earlier points and nothing else, when the driver has
\* written the record of a point every worker of that invocation has ended
\* and has been joined, and the records are one per visited point, in grid
\* order, each written before the next invocation starts.
SinkExclusive ==
    /\ (\E t \in DOMAIN pc : Alive(t)) =>
           (dpc = "engine" /\ mpc \in {"spawn", "join"})
    /\ dpc = "engine" => RecordsUpTo(pt)
    /\ dpc = "floor" =>
           /\ RecordsUpTo(pt + 1)
           /\ njoin = n_threads
           /\ \A t \in DOMAIN pc : pc[t] = "exit"
    /\ dpc = "loop" => RecordsUpTo(pt)
    /\ dpc \in {"load", "components", "threads", "resolve", "open", "header"} =>
           (sink.records = <<>> /\ pc = <<>>)

\* The record of a second point was written after an invocation with
\* several workers.
SecondRecordWritten ==
    /\ dpc = "floor"
    /\ pt >= 1
    /\ n_threads >= 2
    /\ Len(sink.records) = pt + 1
    /\ result.bits >= 2

\* C15: every invocation of simulate_framewise advances the caller's
\* generator by exactly one draw, taken before any worker is spawned, and no
\* worker advances it: the draws taken are as many as the invocations, and
\* from the entry of invocation number pt + 1, when no worker exists yet,
\* until its record is written the count stays pt + 1.
CallerRngIsolated ==
    /\ caller_rng = calls
    /\ calls = Len(sink.records) + (IF dpc = "engine" THEN 1 ELSE 0)
    /\ dpc \in {"engine", "floor"} => caller_rng = pt + 1
    /\ (dpc = "engine" /\ mpc = "spawn" /\ nspawn = 0) =>
           \A t \in DOMAIN pc : pc[t] = "unborn"

\* Workers of a second invocation are running.
SecondCallWorkersRun ==
    /\ dpc = "engine"
    /\ pt >= 1
    /\ n_threads >= 2
    /\ \A t \in DOMAIN pc : Alive(t)
    /\ caller_rng = 2

\* The configuration and the selectors are accepted.
Configured == env.config_ok /\ SnrValid(env) /\ env.selectors_ok

\* C16: a run that fails to create the directory of the output or to open
\* the sink ends with exit code 2, a run with a configuration error or an
\* unknown selector ends with exit code 1, and a run that completes the
\* sweep ends with exit code 0.
ExitCodes ==
    dpc = "exited" =>
        /\ ~Configured => exit_code = 1
        /\ (Configured /\ (~env.dir_ok \/ ~env.open_ok)) => exit_code = 2
        /\ (Configured /\ env.dir_ok /\ env.open_ok) => exit_code = 0

\* What the driver does: a directory that cannot be created ends the run
\* with exit code 1, like a configuration error; only a file that cannot be
\* opened gives 2.
ExitCodesOfMain ==
    dpc = "exited" =>
        /\ ~Configured => exit_code = 1
        /\ (Configured /\ ~env.dir_ok) => exit_code = 1
        /\ (Configured /\ env.dir_ok /\ ~env.open_ok) => exit_code = 2
        /\ (Configured /\ env.dir_ok /\ env.open_ok) => exit_code = 0

\* The sweep has run through the whole grid.
GridExhausted == dpc = "exited" /\ exit_code = 0 /\ pt >= npoints

CiAndFloorOff == cfg.ci_abs.n <= 0 /\ cfg.ci_rel.n <= 0 /\ cfg.ber_floor.n <= 0

\* The condition of C17 on a pair (bits, errs).
ErrorsOrBitsReached(b, e) ==
    \/ cfg.min_errors = 0
    \/ e >= cfg.min_errors
    \/ (cfg.max_bits > 0 /\ b >= cfg.max_bits)

\* C17: with the interval goals and the floor disabled, stop is stored only
\* by a worker whose own snapshot has errs >= min_errors (or min_errors = 0)
\* or has max_bits > 0 and bits >= max_bits, stop changes in no other step
\* and is never reset, and the result returned has errs >= min_errors or
\* bits >= max_bits (with max_bits > 0).
StopPostcondition ==
    /\ [][CiAndFloorOff =>
            /\ \A t \in Workers :
                   (pc[t] = "eval" /\ pc'[t] = "exit") =>
                       /\ ErrorsOrBitsReached(wl[t].bits_after, wl[t].errs_after)
                       /\ stop'
            /\ (stop' # stop) =>
                   \E t \in Workers : pc[t] = "eval" /\ pc'[t] = "exit"
            /\ stop => stop']_vars
    /\ []((CiAndFloorOff /\ mpc = "done") =>
            (stop /\ ErrorsOrBitsReached(result.bits, result.errs)))

\* A call with min_errors > 0 returned before max_bits was reached.
StoppedOnErrors ==
    /\ CiAndFloorOff
    /\ mpc = "done"
    /\ cfg.min_errors > 0
    /\ cfg.max_bits > 0
    /\ result.errs >= cfg.min_errors
    /\ result.bits < cfg.max_bits

\* C20: in every decode of ConvK7R12, whatever the word handed in (a
\* codeword, one with bit errors, a shortened or an arbitrary word), the
\* traceback finds pred >= 0 at every (time, state) it visits, so the
\* fallback to state 0 is never taken, every index is a state, one state is
\* visited per received symbol, and the path traced ends in state 0 at
\* time 0.
TracebackNeedsNoFallback ==
    (stage \in {"decoded", "raw_decoded"} /\ coder = "conv_k7_r12") =>
        /\ dtrace.fallbacks = 0
        /\ dtrace.inb
        /\ Len(dtrace.path) = Len(c_hat) \div 2
        /\ \A k \in 1..Len(dtrace.path) : dtrace.path[k] \in States
        /\ dtrace.last = 0

\* A codeword with a bit error was traced back through a non-zero state.
TracebackRan ==
    /\ stage = "decoded"
    /\ coder = "conv_k7_r12"
    /\ noisy >= 1
    /\ Len(dtrace.path) > M
    /\ \E k \in 1..Len(dtrace.path) : dtrace.path[k] # 0

\* ------------------------------------ SpecML: the decoder on any word
\* The longest information word whose received words are all decoded.
MaxMlLen == 1

\* The word sent is the zero word of each length: what is received does not
\* depend on it.
InitML ==
    /\ coder = "conv_k7_r12"
    /\ modem = "ask2"
    /\ channel = "awgn"
    /\ sigma = 1
    /\ u \in {[k \in 1..n |-> 0] : n \in 0..MaxMlLen}
    /\ c = <<>>
    /\ c_hat = <<>>
    /\ u_hat = <<>>
    /\ i = 0
    /\ noisy = 0
    /\ frame_len_bits = Len(u)
    /\ symrec = NoSym
    /\ dtrace = NoTrace
    /\ cnt = NoCount
    /\ stage = "start"
    /\ EngineIdle
    /\ SweepIdle
    /\ SeedIdle

\* The channel and the demodulator hand the decoder any word of the length
\* of the codeword (simulation.cpp:150-188, c_hat has one bit per coded bit).
ReceiveAny ==
    /\ stage = "coded"
    /\ noisy = 0
    /\ c_hat' \in BitStrings(Len(c), Len(c))
    /\ noisy' = 1
    /\ UNCHANGED <<seedVars, sweepVars, engineVars, ghostVars, detVars, frame_len_bits,
                   coder, modem, channel, sigma, u, c, u_hat, i, symrec,
                   dtrace, cnt, stage>>

NextML == CallEncode \/ ReceiveAny \/ CallDecode

SpecML == InitML /\ [][NextML]_vars

\* The number of positions in which two words of the same length differ.
Hamming(a, b) == Cardinality({k \in 1..Len(a) : a[k] # b[k]})

\* C18: for every received word c_hat of length 2 (n + 6) the decoded word
\* has length n and its codeword is at least as close to c_hat, in Hamming
\* distance, as the codeword of any information word of length n.
ViterbiMLOptimal ==
    (stage = "decoded" /\ Len(c_hat) = 2 * (Len(u) + M)) =>
        /\ Len(u_hat) = Len(u)
        /\ LET best == Hamming(ConvEncode(u_hat, <<>>), c_hat)
           IN  \A v \in BitStrings(Len(u), Len(u)) :
                   best <= Hamming(ConvEncode(v, <<>>), c_hat)

\* A received word was decoded to another information word than the one
\* sent, its codeword being the nearer one.
OtherCodewordNearer ==
    /\ stage = "decoded"
    /\ noisy = 1
    /\ Len(u) = MaxMlLen
    /\ u_hat # u
    /\ Hamming(ConvEncode(u_hat, <<>>), c_hat) >= 3
    /\ Hamming(ConvEncode(u_hat, <<>>), c_hat) < Hamming(c, c_hat)

\* C21: every snapshot pair (bits_after, errs_after) on which a worker
\* evaluates the stop predicates and the Wilson interval has
\* errs_after <= bits_after, for any number of workers and any interleaving
\* of the two fetch_adds.
SnapshotPlausible ==
    \A t \in Workers :
        pc[t] = "eval" => wl[t].errs_after <= wl[t].bits_after

\* What the two separate fetch_adds do give: the errors of a snapshot are
\* those of frames whose bits have been published, possibly after the
\* snapshot of the bits was taken.
SnapshotWithinTotals ==
    \A t \in Workers :
        pc[t] = "eval" =>
            /\ wl[t].errs_after <= total_bits
            /\ wl[t].bits_after <= total_bits

\* --------------------------------------- SpecSeeds: the per-worker seeds
\* The width of a seed word in the model, standing for the 64 bits of
\* uint64_t; the worker index has half the width, as unsigned has.
SeedBits == 8

SeedWord == 2 ^ SeedBits
MaxSeedThreads == (2 ^ (SeedBits \div 2)) - 1

\* simulation.cpp:128: the low 16 bits 0x7C15 of 0x9E3779B97F4A7C15; the
\* multiplier of the model is this constant modulo the word, an odd number.
GoldenLow == 31765
Golden == GoldenLow % SeedWord

\* simulation.cpp:128, seeds[t] for the worker index t >= 0.
SeedOfAnd(b, t) == AndBits(b, (Golden * (t + 1)) % SeedWord)
SeedOf(b, t) == XorBits(b, (Golden * (t + 1)) % SeedWord)

\* simulation.cpp:125-126: the vector is allocated and base is drawn.
InitSeeds ==
    /\ base \in 0..(SeedWord - 1)
    /\ seeds = <<>>
    /\ n_threads \in 1..MaxSeedThreads
    /\ cfg = [min_errors |-> 0, max_bits |-> 0, frame_len |-> 1,
              threads |-> n_threads, ci_abs |-> Zero, ci_rel |-> Zero,
              ci_min_bits |-> 0, ber_floor |-> Zero, z2 |-> 0]
    /\ total_bits = 0
    /\ total_err = 0
    /\ stop = FALSE
    /\ pc = <<>>
    /\ wl = <<>>
    /\ mpc = "seeds"
    /\ nspawn = 0
    /\ njoin = 0
    /\ result = NoResult
    /\ sum_bits = 0
    /\ sum_errs = 0
    /\ stop0 = NoStop
    /\ after_stop = <<>>
    /\ stream = <<>>
    /\ drawn = <<>>
    /\ replay = "off"
    /\ first_result = NoResult
    /\ ChainIdle
    /\ SweepIdle

\* simulation.cpp:127-128: one iteration of the loop over t.
DeriveSeed ==
    /\ mpc = "seeds"
    /\ Len(seeds) < n_threads
    /\ seeds' = Append(seeds, SeedOf(base, Len(seeds)))
    /\ UNCHANGED <<base, chainVars, engineVars, ghostVars, detVars, sweepVars>>

NextSeeds == DeriveSeed

SpecSeeds == InitSeeds /\ [][NextSeeds]_vars

\* C22: for every base and every worker count the seeds
\* base XOR (multiplier * (t + 1) mod 2^w), t = 0 .. n_threads - 1, are
\* pairwise distinct, each being that value in the word.
SeedsDistinct ==
    /\ \A a \in 1..Len(seeds) :
           /\ seeds[a] \in 0..(SeedWord - 1)
           /\ \A b \in 1..Len(seeds) : a # b => seeds[a] # seeds[b]
    /\ Golden % 2 = 1

\* The seeds of the largest worker count were derived from a non-zero base.
AllSeedsDerived ==
    /\ mpc = "seeds"
    /\ base # 0
    /\ n_threads = MaxSeedThreads
    /\ Len(seeds) = n_threads

\* ------------------------------- SpecFrames: the engine on longer frames
\* The frame length of the calls of SpecFrames.
WholeFrameLen == 2

\* Calls with frames of several bits, the interval goals and the floor off.
FrameConfigs ==
    {[min_errors |-> me, max_bits |-> mb, frame_len |-> WholeFrameLen,
      threads |-> th, ci_abs |-> Zero, ci_rel |-> Zero, ci_min_bits |-> 0,
      ber_floor |-> Zero, z2 |-> 4] :
        me \in {0, 1}, mb \in {0, WholeFrameLen + 1}, th \in 1..MaxThreads}

InitFrames ==
    /\ cfg \in FrameConfigs
    /\ EngineStart
    /\ stream = [t \in 1..n_threads |-> <<>>]
    /\ drawn = [t \in 1..n_threads |-> 0]
    /\ replay = "off"
    /\ first_result = NoResult
    /\ ChainIdle
    /\ SweepIdle
    /\ SeedIdle

SpecFrames == InitFrames /\ [][Next]_vars

\* The frame body: whatever the coder, the modem, the channel and the
\* noise, the decoded word has the length of the information word, so the
\* count L of the frame is frame_len (SpecChain).
FrameLengthKept ==
    stage = "done" =>
        /\ Len(u) = frame_len_bits
        /\ Len(u_hat) = frame_len_bits
        /\ cnt.L = frame_len_bits

====
